---- MODULE Spec2Model ----
(***************************************************************************)
(* TimeBrew run pipeline: the scheduler sweep and the manual trigger       *)
(* create runs in run_tracker, the curator, editor and dispatcher workers  *)
(* move a run through its stages.  All coordination goes through the       *)
(* database tables, modelled here as the variables brews, run_tracker,     *)
(* curator_logs and editor_logs.  Every handler is cut into steps at its   *)
(* database commits; a step is one atomic action.                          *)
(*                                                                         *)
(* Time is counted in ticks of 30 minutes.                                 *)
(***************************************************************************)
EXTENDS Integers, Sequences, FiniteSets, TLC

\* ---------------------------------------------------------------- bounds
NumBrews == 2
MaxRuns == 2
NumTriggers == 2
NumWorkers == 2
MaxTime == 4
MaxEmails == 2
MaxPipelineRuns == 1
NumFeedbackSlots == 2
MaxFeedbackRows == 2

\* ------------------------------------------------------ program constants
\* INTERVAL '30 minutes' of the scheduler window, in ticks
WindowTicks == 1
\* INTERVAL '2 hours' of the scheduler's "currently processing" test, in ticks
StaleTicks == 4
\* ticks of one calendar day
DayTicks == 24 * 2

Brews == 1..NumBrews
Triggers == 1..NumTriggers
Workers == 1..NumWorkers
FeedbackSlots == 1..NumFeedbackSlots

Null == "null"
NullTime == 0 - 1
NoRun == 0
NoUser == 0
NoPosition == 0 - 1

WorkingStages == {"curator", "editor", "dispatcher"}
TerminalStages == {"completed", "failed"}

\* ---------------------------------------------------------- static data
\* users.timezone of the brew's owner, as an offset from UTC in ticks
BrewTz(b) == IF b % 2 = 0 THEN DayTicks - 1 ELSE 0
\* brews.delivery_time, as a tick of the local day
BrewDelivery(b) == IF b % 2 = 0 THEN 4 ELSE 5
\* brews.user_id
BrewUser(b) == b

\* ------------------------------------------------- generation-service text
\* The texts the generation service answers with are "garbage" (no JSON),
\* "cur_empty" and "cur_one" (a curator answer with no / one article),
\* "draft_full" and "draft_nosubject" (an editor draft with / without a
\* subject), "draft_text" (a draft whose article is a string).  A parsed value is the set of its keys and its articles list,
\* each article the set of its keys.
CurArticle == {"headline", "summary", "source", "published_time", "relevance", "url"}
EdArticle == {"headline", "story_content", "source"}
\* An article that is a JSON string mentioning the three names, not an object:
\* `key in article` is then the substring test and holds for each of them,
\* while article.get raises AttributeError.
TextArticle == {"<str>", "headline", "story_content", "source"}
is_dict(article) == "<str>" \notin article

JsonNull == [kind |-> "null", keys |-> {}, articles |-> <<>>]
JsonError == [kind |-> "error", keys |-> {}, articles |-> <<>>]
JsonObject(ks, as) == [kind |-> "object", keys |-> ks, articles |-> as]

parse_json_from_response(content) ==
  CASE content = "cur_empty" -> JsonObject({"articles", "curator_notes"}, <<>>)
    [] content = "cur_one" -> JsonObject({"articles", "curator_notes"}, <<CurArticle>>)
    [] content = "draft_full" ->
         JsonObject({"subject", "intro", "articles", "outro"}, <<EdArticle>>)
    [] content = "draft_nosubject" ->
         JsonObject({"intro", "articles", "outro"}, <<EdArticle>>)
    [] content = "draft_text" ->
         JsonObject({"subject", "intro", "articles", "outro"}, <<TextArticle>>)
    [] OTHER -> JsonError

VARIABLES
  now,            \* the clock, in ticks
  brews,          \* time_brew.brews: is_active, last_sent_date
  run_tracker,    \* time_brew.run_tracker, indexed by run_id
  curator_logs,   \* time_brew.curator_logs
  editor_logs,    \* time_brew.editor_logs
  executions,     \* run_ids a Step Functions execution was started for
  emails,         \* per run_id, the emails the mail transport accepted
  sent_date_by,   \* run_ids whose dispatcher set brews.last_sent_date
  trig,           \* manual-trigger requests in flight
  sweep,          \* the scheduler sweep in flight
  wk,             \* worker invocations in flight
  ai,             \* the generation-service call in flight
  user_feedback,  \* time_brew.user_feedback, indexed by id
  fb,             \* feedback submissions in flight
  response        \* what the step just taken answered to its caller, if anything

vars == <<now, brews, run_tracker, curator_logs, editor_logs, executions,
          emails, sent_date_by, trig, sweep, wk, ai, user_feedback, fb, response>>

RunIds == 1..Len(run_tracker)

IdleTrigger == [pc |-> "idle", brew_id |-> 0, run_id |-> NoRun]
IdleSweep == [pc |-> "idle", brews_to_trigger |-> <<>>, run_id |-> NoRun,
              triggered_brews |-> <<>>, failed_triggers |-> <<>>]
IdleWorker == [pc |-> "idle", kind |-> Null, run_id |-> NoRun, log_id |-> 0,
               draft |-> JsonNull, raw_articles |-> <<>>, current_time |-> NullTime]
IdleCall == [pc |-> "idle", provider |-> Null, plan |-> <<>>, attempt |-> 0,
             requests |-> 0, delays |-> <<>>, result |-> Null]
IdleFeedback == [pc |-> "idle", handler |-> Null, requester |-> NoUser, user_id |-> NoUser, ref |-> 0,
                 article_position |-> NoPosition, feedback_type |-> Null,
                 existing_id |-> 0, existing_type |-> Null]

\* An answer of a handler: its status and, in a 409, the id and the stage of
\* the run found in progress.
Conflict_without_run(run_id, stage) ==
  [result |-> "409_run_in_progress", run_id |-> NoRun, stage |-> Null]
Conflict(run_id, stage) ==
  [result |-> "409_run_in_progress", run_id |-> run_id, stage |-> stage]
Answer(result) == [result |-> result, run_id |-> NoRun, stage |-> Null]
NoResponse == Answer("none")

Init ==
  /\ now = 0
  /\ \E inactive \in SUBSET {NumBrews} :
       brews = [b \in Brews |-> [is_active |-> b \notin inactive,
                                 last_sent_date |-> NullTime]]
  /\ run_tracker = <<>>
  /\ curator_logs = <<>>
  /\ editor_logs = <<>>
  /\ executions = {}
  /\ emails = [r \in 1..MaxRuns |-> 0]
  /\ sent_date_by = {}
  /\ trig = [t \in Triggers |-> IdleTrigger]
  /\ sweep = IdleSweep
  /\ wk = [w \in Workers |-> IdleWorker]
  /\ ai = IdleCall
  /\ user_feedback = <<>>
  /\ fb = [f \in FeedbackSlots |-> IdleFeedback]
  /\ response = NoResponse

\* The clock advances.
Tick ==
  /\ now < MaxTime
  /\ now' = now + 1
  /\ response' = NoResponse
  /\ UNCHANGED <<user_feedback, fb, ai, brews, run_tracker, curator_logs, editor_logs, executions,
                 emails, sent_date_by, trig, sweep, wk>>

\* ------------------------------------------------------------ run creation
NewRun_at_editor(brew_id) ==
  [brew_id |-> brew_id, user_id |-> BrewUser(brew_id), current_stage |-> "editor",
   failed_stage |-> Null, error_message |-> Null, created_at |-> now]
NewRun(brew_id) ==
  [brew_id |-> brew_id, user_id |-> BrewUser(brew_id), current_stage |-> "curator",
   failed_stage |-> Null, error_message |-> Null, created_at |-> now]

\* INSERT INTO run_tracker ... VALUES (brew_id, user_id, 'curator') RETURNING run_id
create_run_tracker_entry(brew_id) == Append(run_tracker, NewRun(brew_id))

\* The in-progress runs of a brew, as the manual trigger's pre-check selects them.
InProgressRuns(brew_id) ==
  {r \in RunIds : run_tracker[r].brew_id = brew_id
                  /\ run_tracker[r].current_stage \in WorkingStages}

\* ORDER BY created_at DESC LIMIT 1
LatestOf(rs) == {r \in rs : \A q \in rs : run_tracker[q].created_at <= run_tracker[r].created_at}

\* A request or invocation takes the first free slot (slots are interchangeable).
FirstIdle(slots, w) == slots[w].pc = "idle" /\ \A v \in 1..(w - 1) : slots[v].pc # "idle"

\* ----------------------------------------------------------- manual trigger
\* handlers/scheduler/trigger_brew.py, up to the in-progress pre-check: the
\* request is answered 400/404/409 or goes on to insert a run.
trigger_brew_check_any_brew(t, brew_id) ==
  /\ FirstIdle(trig, t)
  /\ LET in_progress == LatestOf(InProgressRuns(brew_id))
     IN  IF brew_id = 0
           THEN response' = Answer("400_brew_id_required") /\ UNCHANGED trig
         ELSE IF brew_id \notin Brews
           THEN response' = Answer("404_brew_not_found") /\ UNCHANGED trig
         ELSE IF in_progress # {}
           THEN /\ \E r \in in_progress :
                     response' = Conflict(r, run_tracker[r].current_stage)
                /\ UNCHANGED trig
         ELSE /\ trig' = [trig EXCEPT ![t] = [IdleTrigger EXCEPT !.pc = "insert",
                                                                  !.brew_id = brew_id]]
              /\ response' = NoResponse
  /\ UNCHANGED <<user_feedback, fb, ai, now, brews, run_tracker, curator_logs, editor_logs, executions,
                 emails, sent_date_by, sweep, wk>>
trigger_brew_check(t, brew_id) ==
  /\ FirstIdle(trig, t)
  /\ LET in_progress == LatestOf(InProgressRuns(brew_id))
     IN  IF brew_id = 0
           THEN response' = Answer("400_brew_id_required") /\ UNCHANGED trig
         ELSE IF brew_id \notin Brews
           THEN response' = Answer("404_brew_not_found") /\ UNCHANGED trig
         ELSE IF ~brews[brew_id].is_active
           THEN response' = Answer("400_brew_not_active") /\ UNCHANGED trig
         ELSE IF in_progress # {}
           THEN /\ \E r \in in_progress :
                     response' = Conflict(r, run_tracker[r].current_stage)
                /\ UNCHANGED trig
         ELSE /\ trig' = [trig EXCEPT ![t] = [IdleTrigger EXCEPT !.pc = "insert",
                                                                  !.brew_id = brew_id]]
              /\ response' = NoResponse
  /\ UNCHANGED <<user_feedback, fb, ai, now, brews, run_tracker, curator_logs, editor_logs, executions,
                 emails, sent_date_by, sweep, wk>>

\* create_run_tracker_entry of the manual trigger: the insert commits, or
\* fails and the request is answered 500.
trigger_brew_insert(t) ==
  /\ trig[t].pc = "insert"
  /\ \/ /\ Len(run_tracker) < MaxRuns
        /\ run_tracker' = create_run_tracker_entry(trig[t].brew_id)
        /\ trig' = [trig EXCEPT ![t].pc = "exec", ![t].run_id = Len(run_tracker) + 1]
        /\ response' = NoResponse
     \/ /\ trig' = [trig EXCEPT ![t] = IdleTrigger]
        /\ response' = Answer("500_create_failed")
        /\ UNCHANGED run_tracker
  /\ UNCHANGED <<user_feedback, fb, ai, now, brews, curator_logs, editor_logs, executions,
                 emails, sent_date_by, sweep, wk>>

\* trigger_ai_pipeline: start_execution succeeds or raises.
trigger_ai_pipeline(run_id, success) ==
  IF success THEN executions \cup {run_id} ELSE executions

trigger_brew_exec(t) ==
  /\ trig[t].pc = "exec"
  /\ \E success \in BOOLEAN :
       /\ executions' = trigger_ai_pipeline(trig[t].run_id, success)
       /\ response' = Answer(IF success THEN "200" ELSE "500_pipeline_failed")
  /\ trig' = [trig EXCEPT ![t] = IdleTrigger]
  /\ UNCHANGED <<user_feedback, fb, ai, now, brews, run_tracker, curator_logs, editor_logs,
                 emails, sent_date_by, sweep, wk>>

\* ---------------------------------------------------------------- scheduler
LocalNow(b) == now + BrewTz(b)
LocalDate(t) == t \div DayTicks
\* (NOW() AT TIME ZONE tz)::date + delivery_time::time
DeliveryLocal(b) == LocalDate(LocalNow(b)) * DayTicks + BrewDelivery(b)
DeliveryUtc(b) == DeliveryLocal(b) - BrewTz(b)

DueForDelivery_ignoring_last_sent(b) ==
  /\ brews[b].is_active
  /\ DeliveryLocal(b) >= LocalNow(b)
  /\ DeliveryLocal(b) <= LocalNow(b) + WindowTicks
  /\ ~ \E r \in RunIds :
         /\ run_tracker[r].brew_id = b
         /\ run_tracker[r].current_stage \in WorkingStages
         /\ run_tracker[r].created_at > now - StaleTicks
\* The WHERE clause of the scheduler query.
DueForDelivery(b) ==
  /\ brews[b].is_active
  /\ DeliveryLocal(b) >= LocalNow(b)
  /\ DeliveryLocal(b) <= LocalNow(b) + WindowTicks
  /\ \/ brews[b].last_sent_date = NullTime
     \/ LocalDate(brews[b].last_sent_date + BrewTz(b)) < LocalDate(LocalNow(b))
  /\ ~ \E r \in RunIds :
         /\ run_tracker[r].brew_id = b
         /\ run_tracker[r].current_stage \in WorkingStages
         /\ run_tracker[r].created_at > now - StaleTicks

\* The rows in the order of ORDER BY delivery_datetime_utc (ties in any order).
OrderedRows(S) ==
  {q \in [1..Cardinality(S) -> S] :
     /\ \A i, j \in 1..Cardinality(S) : i # j => q[i] # q[j]
     /\ \A i, j \in 1..Cardinality(S) : i < j => DeliveryUtc(q[i]) <= DeliveryUtc(q[j])}

\* The sweep starts: the query is run and its rows fetched.
brew_scheduler_query ==
  /\ sweep.pc = "idle"
  /\ \E q \in OrderedRows({b \in Brews : DueForDelivery(b)}) :
       sweep' = [IdleSweep EXCEPT !.pc = "loop", !.brews_to_trigger = q]
  /\ response' = NoResponse
  /\ UNCHANGED <<user_feedback, fb, ai, now, brews, run_tracker, curator_logs, editor_logs, executions,
                 emails, sent_date_by, trig, wk>>

\* One iteration, first half: create_run_tracker_entry for the next brew.
brew_scheduler_create ==
  /\ sweep.pc = "loop"
  /\ sweep.brews_to_trigger # <<>>
  /\ LET brew_id == Head(sweep.brews_to_trigger)
     IN \/ /\ Len(run_tracker) < MaxRuns
           /\ run_tracker' = create_run_tracker_entry(brew_id)
           /\ sweep' = [sweep EXCEPT !.pc = "exec", !.run_id = Len(run_tracker) + 1]
        \/ /\ sweep' = [sweep EXCEPT
                          !.failed_triggers = Append(@, brew_id),
                          !.brews_to_trigger = Tail(@)]
           /\ UNCHANGED run_tracker
  /\ response' = NoResponse
  /\ UNCHANGED <<user_feedback, fb, ai, now, brews, curator_logs, editor_logs, executions,
                 emails, sent_date_by, trig, wk>>

brew_scheduler_exec_raising ==
  /\ sweep.pc = "exec"
  /\ \E success \in BOOLEAN :
       /\ executions' = trigger_ai_pipeline(sweep.run_id, success)
       /\ sweep' = [sweep EXCEPT
                      !.pc = IF success THEN "loop" ELSE "idle",
                      !.run_id = NoRun,
                      !.brews_to_trigger = Tail(@),
                      !.triggered_brews =
                         IF success THEN Append(@, Head(sweep.brews_to_trigger)) ELSE @,
                      !.failed_triggers =
                         IF success THEN @ ELSE Append(@, Head(sweep.brews_to_trigger))]
       /\ response' = IF success THEN NoResponse ELSE Answer("raised")
  /\ UNCHANGED <<user_feedback, fb, ai, now, brews, run_tracker, curator_logs, editor_logs,
                 emails, sent_date_by, trig, wk>>

\* One iteration, second half: trigger_ai_pipeline for the run just created.
brew_scheduler_exec ==
  /\ sweep.pc = "exec"
  /\ \E success \in BOOLEAN :
       /\ executions' = trigger_ai_pipeline(sweep.run_id, success)
       /\ sweep' = [sweep EXCEPT
                      !.pc = "loop",
                      !.run_id = NoRun,
                      !.brews_to_trigger = Tail(@),
                      !.triggered_brews =
                         IF success THEN Append(@, Head(sweep.brews_to_trigger)) ELSE @,
                      !.failed_triggers =
                         IF success THEN @ ELSE Append(@, Head(sweep.brews_to_trigger))]
  /\ response' = NoResponse
  /\ UNCHANGED <<user_feedback, fb, ai, now, brews, run_tracker, curator_logs, editor_logs,
                 emails, sent_date_by, trig, wk>>

\* The loop is over: the sweep returns its summary (the two lists).
brew_scheduler_return ==
  /\ sweep.pc = "loop"
  /\ sweep.brews_to_trigger = <<>>
  /\ sweep' = [sweep EXCEPT !.pc = "idle"]
  /\ response' = Answer("200")
  /\ UNCHANGED <<user_feedback, fb, ai, now, brews, run_tracker, curator_logs, editor_logs, executions,
                 emails, sent_date_by, trig, wk>>

\* ------------------------------------------------------------------ workers
\* What the generation call hands back to a worker: a text, or "error" when
\* ai_service.call raises (a null content raises inside the call, at
\* len(content)).
CuratorReplies == {"garbage", "cur_empty", "cur_one", Null, "error"}
EditorReplies == {"garbage", "cur_one", "draft_full", "draft_nosubject", "draft_text",
                  Null, "error"}
ai_service_call_passthrough(upstream) == upstream
ai_service_call(upstream) == IF upstream = Null THEN "error" ELSE upstream

LogsOf(logs, run_id) == {i \in 1..Len(logs) : logs[i].run_id = run_id}

\* UPDATE run_tracker SET current_stage = next_stage WHERE run_id
SetStage(run_id, next_stage) ==
  IF run_id \in RunIds
    THEN [run_tracker EXCEPT ![run_id].current_stage = next_stage]
    ELSE run_tracker

\* UPDATE run_tracker SET current_stage = 'failed', failed_stage, error_message
\* WHERE run_id: the write of each worker's outer exception handler.
SetFailed(run_id, failed_stage, error_message) ==
  IF run_id \in RunIds
    THEN [run_tracker EXCEPT ![run_id].current_stage = "failed",
                             ![run_id].failed_stage = failed_stage,
                             ![run_id].error_message = error_message]
    ELSE run_tracker

\* The invocation in slot w is over.
Done(w) == [wk EXCEPT ![w] = IdleWorker]

\* ---- curator
curator_stage_mismatch_never(current_stage) == FALSE
curator_stage_mismatch(current_stage) == current_stage # "curator"
curator_fail_stage_only(run_id, e) == SetStage(run_id, "failed")
curator_fail(run_id, e) == SetFailed(run_id, "curator", e)
curator_advance(run_id) == SetStage(run_id, "editor")

\* INSERT INTO curator_logs: the raw response, no articles yet.  parsed is
\* not a column: it records that the UPDATE below has filled raw_articles.
curator_log_insert(run_id, content) ==
  Append(curator_logs, [run_id |-> run_id, raw_articles |-> <<>>,
                        raw_llm_response |-> content, parsed |-> FALSE])

\* UPDATE curator_logs SET raw_articles = articles WHERE run_id
curator_log_update(run_id, articles) ==
  [i \in 1..Len(curator_logs) |->
     IF curator_logs[i].run_id = run_id
       THEN [curator_logs[i] EXCEPT !.raw_articles = articles, !.parsed = TRUE]
       ELSE curator_logs[i]]

\* response_data.get("articles", [])
ArticlesOf(json) == IF "articles" \in json.keys THEN json.articles ELSE <<>>

\* The curator up to its stage check.  query_error: the brew query raises and
\* the outer handler marks the run failed.
news_curator_check(w, brew_id, run_id, query_error) ==
  /\ FirstIdle(wk, w)
  /\ IF query_error
       THEN /\ run_tracker' = curator_fail(run_id, "query failed")
            /\ response' = Answer("raised")
            /\ UNCHANGED wk
     ELSE IF ~brews[brew_id].is_active
       THEN /\ response' = Answer("404_brew_not_found")
            /\ UNCHANGED <<wk, run_tracker>>
     ELSE IF run_id \notin RunIds \/ run_tracker[run_id].brew_id # brew_id
       THEN /\ response' = Answer("400_invalid_run")
            /\ UNCHANGED <<wk, run_tracker>>
     ELSE IF curator_stage_mismatch(run_tracker[run_id].current_stage)
       THEN /\ response' = Answer("400_wrong_stage")
            /\ UNCHANGED <<wk, run_tracker>>
     ELSE /\ wk' = [wk EXCEPT ![w] =
                      [IdleWorker EXCEPT !.pc = "call", !.kind = "curator",
                                         !.run_id = run_id]]
          /\ response' = NoResponse
          /\ UNCHANGED run_tracker
  /\ UNCHANGED <<user_feedback, fb, ai, now, brews, curator_logs, editor_logs, executions,
                 emails, sent_date_by, trig, sweep>>

\* The generation call and the insert of the raw response.
news_curator_call(w, upstream) ==
  /\ wk[w].pc = "call" /\ wk[w].kind = "curator"
  /\ LET content == ai_service_call(upstream)
         run_id == wk[w].run_id
     IN IF content = "error"
          THEN /\ run_tracker' = curator_fail(run_id, "API error")
               /\ response' = Answer("raised")
               /\ wk' = Done(w)
               /\ UNCHANGED curator_logs
          ELSE /\ curator_logs' = curator_log_insert(run_id, content)
               /\ wk' = [wk EXCEPT ![w].pc = "parse", ![w].log_id = Len(curator_logs) + 1]
               /\ response' = NoResponse
               /\ UNCHANGED run_tracker
  /\ UNCHANGED <<user_feedback, fb, ai, now, brews, editor_logs, executions, emails, sent_date_by, trig, sweep>>

news_curator_finish_regenerating(w) ==
  /\ wk[w].pc = "parse" /\ wk[w].kind = "curator"
  /\ LET content == curator_logs[wk[w].log_id].raw_llm_response
         response_data == parse_json_from_response(content)
         run_id == wk[w].run_id
     IN IF response_data.kind = "error"
          THEN /\ wk' = [wk EXCEPT ![w].pc = "call", ![w].log_id = 0]
               /\ response' = NoResponse
               /\ UNCHANGED <<curator_logs, run_tracker>>
          ELSE /\ curator_logs' = curator_log_update(run_id, ArticlesOf(response_data))
               /\ run_tracker' = curator_advance(run_id)
               /\ response' = Answer("200")
               /\ wk' = Done(w)
  /\ UNCHANGED <<user_feedback, fb, ai, now, brews, editor_logs, executions, emails, sent_date_by, trig, sweep>>

\* Parsing, then either the failure write or the update of the log together
\* with the move to the editor stage.
news_curator_finish(w) ==
  /\ wk[w].pc = "parse" /\ wk[w].kind = "curator"
  /\ LET content == curator_logs[wk[w].log_id].raw_llm_response
         response_data == parse_json_from_response(content)
         run_id == wk[w].run_id
     IN IF response_data.kind = "error"
          THEN /\ run_tracker' = curator_fail(run_id, "parse error")
               /\ response' = Answer("raised_parse")
               /\ UNCHANGED curator_logs
          ELSE /\ curator_logs' = curator_log_update(run_id, ArticlesOf(response_data))
               /\ run_tracker' = curator_advance(run_id)
               /\ response' = Answer("200")
  /\ wk' = Done(w)
  /\ UNCHANGED <<user_feedback, fb, ai, now, brews, editor_logs, executions, emails, sent_date_by, trig, sweep>>

\* ---- editor
editor_stage_mismatch(stage) == stage # "editor"
editor_fail(run_id, e) == SetFailed(run_id, "editor", e)
editor_advance(run_id) == SetStage(run_id, "dispatcher")

\* INSERT INTO editor_logs: the raw response, editorial_content NULL,
\* email_sent false.
editor_log_insert(run_id, ai_response) ==
  Append(editor_logs, [run_id |-> run_id, raw_llm_response |-> ai_response,
                       editorial_content |-> JsonNull, email_sent |-> FALSE])

editor_log_update_skipped(run_id, editor_draft) == editor_logs

\* UPDATE editor_logs SET editorial_content = draft WHERE run_id
editor_log_update(run_id, editor_draft) ==
  [i \in 1..Len(editor_logs) |->
     IF editor_logs[i].run_id = run_id
       THEN [editor_logs[i] EXCEPT !.editorial_content = editor_draft]
       ELSE editor_logs[i]]

\* The keys the editor's prompt reads from every curated article with
\* article['...'].
PromptArticleKeys == {"headline", "summary", "source", "published_time", "relevance"}
articles_text_ok_nonempty(raw_articles) ==
  /\ raw_articles # <<>>
  /\ \A i \in 1..Len(raw_articles) : PromptArticleKeys \subseteq raw_articles[i]
articles_text_ok(raw_articles) ==
  \A i \in 1..Len(raw_articles) : PromptArticleKeys \subseteq raw_articles[i]

\* The validation of the parsed draft: required keys, then every article.
draft_valid(editor_draft) ==
  /\ editor_draft.kind = "object"
  /\ {"intro", "articles", "outro"} \subseteq editor_draft.keys
  /\ \A i \in 1..Len(editor_draft.articles) :
       {"headline", "story_content", "source"} \subseteq editor_draft.articles[i]

\* The editor up to the read of the curator log.
news_editor_check(w, run_id, query_error) ==
  /\ FirstIdle(wk, w)
  /\ IF query_error
       THEN /\ run_tracker' = editor_fail(run_id, "query failed")
            /\ response' = Answer("raised")
            /\ UNCHANGED wk
     ELSE IF run_id \notin RunIds
       THEN /\ response' = Answer("404_run_not_found")
            /\ UNCHANGED <<wk, run_tracker>>
     ELSE IF editor_stage_mismatch(run_tracker[run_id].current_stage)
       THEN /\ response' = Answer("400_wrong_stage")
            /\ UNCHANGED <<wk, run_tracker>>
     ELSE IF LogsOf(curator_logs, run_id) = {}
       THEN /\ response' = Answer("404_no_curator_log")
            /\ UNCHANGED <<wk, run_tracker>>
     ELSE /\ \E i \in LogsOf(curator_logs, run_id) :
               wk' = [wk EXCEPT ![w] =
                        [IdleWorker EXCEPT !.pc = "call", !.kind = "editor",
                                           !.run_id = run_id,
                                           !.raw_articles = curator_logs[i].raw_articles]]
          /\ response' = NoResponse
          /\ UNCHANGED run_tracker
  /\ UNCHANGED <<user_feedback, fb, ai, now, brews, curator_logs, editor_logs, executions,
                 emails, sent_date_by, trig, sweep>>

news_editor_call_again(w, upstream) ==
  /\ wk[w].pc = "call" /\ wk[w].kind = "editor"
  /\ LET ai_response == ai_service_call(upstream)
         run_id == wk[w].run_id
     IN IF ~articles_text_ok(wk[w].raw_articles)
          THEN /\ run_tracker' = editor_fail(run_id, "KeyError")
               /\ response' = Answer("raised")
               /\ wk' = Done(w)
               /\ UNCHANGED editor_logs
        ELSE IF ai_response = "error"
          THEN /\ response' = Answer("retrying")
               /\ UNCHANGED <<run_tracker, wk, editor_logs>>
        ELSE /\ editor_logs' = editor_log_insert(run_id, ai_response)
             /\ wk' = [wk EXCEPT ![w].pc = "parse", ![w].log_id = Len(editor_logs) + 1,
                                 ![w].raw_articles = <<>>]
             /\ response' = NoResponse
             /\ UNCHANGED run_tracker
  /\ UNCHANGED <<user_feedback, fb, ai, now, brews, curator_logs, executions, emails, sent_date_by, trig, sweep>>

\* The prompt, the generation call and the insert of the raw response.
news_editor_call(w, upstream) ==
  /\ wk[w].pc = "call" /\ wk[w].kind = "editor"
  /\ LET ai_response == ai_service_call(upstream)
         run_id == wk[w].run_id
     IN IF ~articles_text_ok(wk[w].raw_articles)
          THEN /\ run_tracker' = editor_fail(run_id, "KeyError")
               /\ response' = Answer("raised")
               /\ wk' = Done(w)
               /\ UNCHANGED editor_logs
        ELSE IF ai_response = "error"
          THEN /\ run_tracker' = editor_fail(run_id, "API error")
               /\ response' = Answer("raised")
               /\ wk' = Done(w)
               /\ UNCHANGED editor_logs
        ELSE /\ editor_logs' = editor_log_insert(run_id, ai_response)
             /\ wk' = [wk EXCEPT ![w].pc = "parse", ![w].log_id = Len(editor_logs) + 1,
                                 ![w].raw_articles = <<>>]
             /\ response' = NoResponse
             /\ UNCHANGED run_tracker
  /\ UNCHANGED <<user_feedback, fb, ai, now, brews, curator_logs, executions, emails, sent_date_by, trig, sweep>>

\* Parsing and validation, then either the failure write or the update of the
\* log together with the move to the dispatcher stage.
news_editor_finish(w) ==
  /\ wk[w].pc = "parse" /\ wk[w].kind = "editor"
  /\ LET ai_response == editor_logs[wk[w].log_id].raw_llm_response
         editor_draft == parse_json_from_response(ai_response)
         run_id == wk[w].run_id
     IN IF ~draft_valid(editor_draft)
          THEN /\ run_tracker' = editor_fail(run_id, "Failed to process AI response")
               /\ response' = Answer("raised_parse")
               /\ UNCHANGED editor_logs
          ELSE /\ editor_logs' = editor_log_update(run_id, editor_draft)
               /\ run_tracker' = editor_advance(run_id)
               /\ response' = Answer("200")
  /\ wk' = Done(w)
  /\ UNCHANGED <<user_feedback, fb, ai, now, brews, curator_logs, executions, emails, sent_date_by, trig, sweep>>

\* ---- dispatcher
dispatcher_stage_mismatch(stage) == stage # "dispatcher"
dispatcher_fail_stage_only(run_id, e) == SetStage(run_id, "failed")
dispatcher_fail(run_id, e) == SetFailed(run_id, "dispatcher", e)

\* The handler's write when get_db_connection raised: current_stage only.
dispatcher_fail_no_cursor(run_id) == SetStage(run_id, "failed")

\* The draft the dispatcher takes from an editor log row: editorial_content
\* when it is set, else the raw response parsed with json.loads.
draft_of(row) ==
  IF row.editorial_content.kind = "object" /\ row.editorial_content.keys # {}
    THEN row.editorial_content
    ELSE parse_json_from_response(row.raw_llm_response)

\* The three updates of the success transaction.
dispatcher_complete_run(run_id) == SetStage(run_id, "completed")
dispatcher_mark_brew(brew_id, sent_at_utc) ==
  [brews EXCEPT ![brew_id].last_sent_date = sent_at_utc]
dispatcher_mark_log(run_id) ==
  [i \in 1..Len(editor_logs) |->
     IF editor_logs[i].run_id = run_id
       THEN [editor_logs[i] EXCEPT !.email_sent = TRUE]
       ELSE editor_logs[i]]

\* The dispatcher up to the formatting of the email.  db_error is "connect"
\* (get_db_connection raises), "query" (the run query raises) or "none".
email_dispatcher_check(w, run_id, db_error) ==
  /\ FirstIdle(wk, w)
  /\ IF db_error = "connect"
       THEN /\ run_tracker' = dispatcher_fail_no_cursor(run_id)
            /\ response' = Answer("raised")
            /\ UNCHANGED wk
     ELSE IF db_error = "query"
       THEN /\ run_tracker' = dispatcher_fail(run_id, "query failed")
            /\ response' = Answer("raised")
            /\ UNCHANGED wk
     ELSE IF run_id \notin RunIds
       THEN /\ response' = Answer("404_run_not_found")
            /\ UNCHANGED <<wk, run_tracker>>
     ELSE IF dispatcher_stage_mismatch(run_tracker[run_id].current_stage)
       THEN /\ response' = Answer("400_wrong_stage")
            /\ UNCHANGED <<wk, run_tracker>>
     ELSE IF LogsOf(editor_logs, run_id) = {}
       THEN /\ response' = Answer("404_no_editor_log")
            /\ UNCHANGED <<wk, run_tracker>>
     ELSE /\ \E i \in LogsOf(editor_logs, run_id) :
               LET editor_draft == draft_of(editor_logs[i])
               IN IF editor_draft.kind = "error"
                    THEN /\ response' = Answer("400_invalid_draft")
                         /\ UNCHANGED wk
                  ELSE IF \/ "articles" \notin editor_draft.keys
                          \/ \E k \in 1..Len(editor_draft.articles) :
                               ~is_dict(editor_draft.articles[k])
                    THEN /\ response' = Answer("500_format")
                         /\ UNCHANGED wk
                  ELSE /\ wk' = [wk EXCEPT ![w] =
                                   [IdleWorker EXCEPT !.pc = "send", !.kind = "dispatcher",
                                                      !.run_id = run_id,
                                                      !.draft = editor_draft,
                                                      !.current_time = now]]
                       /\ response' = NoResponse
          /\ UNCHANGED run_tracker
  /\ UNCHANGED <<user_feedback, fb, ai, now, brews, curator_logs, editor_logs, executions,
                 emails, sent_date_by, trig, sweep>>

\* The SMTP send: the subject is sliced for the log line, then the transport
\* accepts the message or raises.
email_dispatcher_send(w, accepted) ==
  /\ wk[w].pc = "send" /\ wk[w].kind = "dispatcher"
  /\ accepted => emails[wk[w].run_id] < MaxEmails
  /\ LET run_id == wk[w].run_id
     IN IF "subject" \notin wk[w].draft.keys
          THEN /\ run_tracker' = dispatcher_fail(run_id, "TypeError")
               /\ response' = Answer("raised")
               /\ wk' = Done(w)
               /\ UNCHANGED emails
        ELSE IF ~accepted
          THEN /\ run_tracker' = dispatcher_fail(run_id, "SMTP error")
               /\ response' = Answer("raised_smtp")
               /\ wk' = Done(w)
               /\ UNCHANGED emails
        ELSE /\ emails' = [emails EXCEPT ![run_id] = @ + 1]
             /\ wk' = [wk EXCEPT ![w].pc = "update", ![w].draft = JsonNull]
             /\ response' = NoResponse
             /\ UNCHANGED run_tracker
  /\ UNCHANGED <<user_feedback, fb, ai, now, brews, curator_logs, editor_logs, executions,
                 sent_date_by, trig, sweep>>

\* The transaction after the send.  When it raises it is rolled back and the
\* connection closed; the outer handler's write on the closed cursor raises
\* too, so nothing is written.
email_dispatcher_update(w, update_error) ==
  /\ wk[w].pc = "update" /\ wk[w].kind = "dispatcher"
  /\ LET run_id == wk[w].run_id
         sent_at_utc == wk[w].current_time
     IN IF update_error
          THEN /\ response' = Answer("raised_update")
               /\ UNCHANGED <<run_tracker, brews, editor_logs, sent_date_by>>
          ELSE /\ run_tracker' = dispatcher_complete_run(run_id)
               /\ brews' = dispatcher_mark_brew(run_tracker[run_id].brew_id, sent_at_utc)
               /\ editor_logs' = dispatcher_mark_log(run_id)
               /\ sent_date_by' = sent_date_by \cup {run_id}
               /\ response' = Answer("200")
  /\ wk' = Done(w)
  /\ UNCHANGED <<user_feedback, fb, ai, now, curator_logs, executions, emails, trig, sweep>>

\* ------------------------------------------------ generation-service client
\* max_retries: int = 3, the default no caller overrides
max_retries == 3
Providers == {"perplexity", "openai"}
\* requests.exceptions.Timeout, ConnectionError, ReadTimeout
TransientErrors == {"timeout", "connection_error"}
\* What one HTTP request yields: a 200 answer with a text or with a null
\* content, another status, or a transient error.
Outcomes == {"cur_one", Null, "http_error"} \cup TransientErrors
\* The methods of utils.logger.Logger that write a log line.
logger_methods == {"info", "warn", "error", "debug"}

\* AIService.call: the provider's function is looked up and called.  plan[k]
\* is what the k-th HTTP request of this call would yield.
ai_service_start(provider) ==
  /\ ai.pc = "idle"
  /\ \E plan \in [1..(max_retries + 1) -> Outcomes] :
       ai' = [IdleCall EXCEPT !.pc = "request", !.provider = provider, !.plan = plan]
  /\ UNCHANGED <<user_feedback, fb, now, brews, run_tracker, curator_logs, editor_logs,
                 executions, emails, sent_date_by, trig, sweep, wk, response>>

\* One iteration of the loop of _call_perplexity: the backoff sleep (from the
\* second iteration on), the request, and the handling of its outcome.  The
\* handler of a transient error calls logger.warning first; a method the
\* logger does not have raises AttributeError, which leaves the handler and
\* the loop and is wrapped by AIService.call.
call_perplexity_attempt ==
  /\ ai.pc = "request" /\ ai.provider = "perplexity"
  /\ LET attempt == ai.attempt
         outcome == ai.plan[attempt + 1]
         sent == [ai EXCEPT !.requests = @ + 1,
                            !.delays = IF attempt > 0 THEN Append(@, 2 ^ attempt) ELSE @]
         raised == [sent EXCEPT !.pc = "done", !.result = "error"]
     IN IF outcome \in TransientErrors
          THEN IF "warning" \notin logger_methods
                 THEN ai' = raised
               ELSE IF attempt = max_retries
                 THEN ai' = raised
               ELSE ai' = [sent EXCEPT !.attempt = @ + 1]
        ELSE IF outcome = "http_error"
          THEN ai' = raised
        ELSE ai' = [sent EXCEPT !.pc = "done", !.result = ai_service_call(outcome)]
  /\ UNCHANGED <<user_feedback, fb, now, brews, run_tracker, curator_logs, editor_logs,
                 executions, emails, sent_date_by, trig, sweep, wk, response>>

\* _call_openai: one request through the client library, no loop.
call_openai ==
  /\ ai.pc = "request" /\ ai.provider = "openai"
  /\ LET outcome == ai.plan[1]
         sent == [ai EXCEPT !.requests = @ + 1]
     IN IF outcome \in TransientErrors \cup {"http_error"}
          THEN ai' = [sent EXCEPT !.pc = "done", !.result = "error"]
          ELSE ai' = [sent EXCEPT !.pc = "done", !.result = ai_service_call(outcome)]
  /\ UNCHANGED <<user_feedback, fb, now, brews, run_tracker, curator_logs, editor_logs,
                 executions, emails, sent_date_by, trig, sweep, wk, response>>

\* The call returns its result to the worker, or raises AIServiceError.
ai_service_return ==
  /\ ai.pc = "done"
  /\ ai' = IdleCall
  /\ UNCHANGED <<user_feedback, fb, now, brews, run_tracker, curator_logs, editor_logs,
                 executions, emails, sent_date_by, trig, sweep, wk, response>>

\* ----------------------------------------------------------------- feedback
Users == {BrewUser(b) : b \in Brews}
Reactions == {"like", "dislike"}

\* A row of user_feedback.  The legacy handler fills run_id and leaves
\* editorial_id NULL, the authenticated endpoint does the opposite.  Ids are
\* never reused: a deleted row leaves DeletedRow at its id.
DeletedRow == [run_id |-> NoRun, editorial_id |-> 0, user_id |-> NoUser,
               article_position |-> NoPosition, feedback_type |-> Null]
LiveIds(rows) == {i \in 1..Len(rows) : rows[i] # DeletedRow}

\* SELECT id, feedback_type FROM user_feedback
\* WHERE run_id = %s AND user_id = %s AND article_position = %s
existing_feedback_query(rows, run_id, user_id, article_position) ==
  {i \in LiveIds(rows) : /\ rows[i].run_id = run_id
                          /\ rows[i].user_id = user_id
                          /\ rows[i].article_position = article_position}

\* SELECT id, feedback_type FROM user_feedback WHERE editorial_id = %s AND
\* user_id = %s AND (article_position = %s OR (article_position IS NULL AND %s IS NULL))
submit_feedback_select(rows, user_id, editorial_id, article_position) ==
  {i \in LiveIds(rows) : /\ rows[i].editorial_id = editorial_id
                          /\ rows[i].user_id = user_id
                          /\ rows[i].article_position = article_position}

\* The write both handlers make after their SELECT: DELETE ... WHERE id when
\* the row found holds the same reaction, UPDATE ... WHERE id RETURNING id when
\* it holds the other one, INSERT when no row was found.  The UPDATE of a row
\* that is gone returns no id, and fetchone()[0] raises.
toggle_action_overwriting(rows, existing_id, existing_type, feedback_type) ==
  IF existing_id = 0 THEN "submitted"
  ELSE IF rows[existing_id] = DeletedRow THEN "raised"
  ELSE "updated"
toggle_action(rows, existing_id, existing_type, feedback_type) ==
  IF existing_id = 0 THEN "submitted"
  ELSE IF existing_type = feedback_type THEN "removed"
  ELSE IF rows[existing_id] = DeletedRow THEN "raised"
  ELSE "updated"
toggle_write(rows, existing_id, existing_type, feedback_type, new_row) ==
  LET action == toggle_action(rows, existing_id, existing_type, feedback_type)
  IN CASE action = "submitted" -> Append(rows, new_row)
       [] action = "removed" -> [rows EXCEPT ![existing_id] = DeletedRow]
       [] action = "updated" -> [rows EXCEPT ![existing_id].feedback_type = feedback_type]
       [] OTHER -> rows

\* COALESCE(cl.article_count, 0) of the run's curator log: the curator inserts
\* the log with article_count 0 and its UPDATE of the parsed articles does not
\* set the column.
article_count(run_id) == 0

\* rating is an integer from 1 to MaxRating; what the body may hold besides is
\* nothing (0) or a number out of range.
MaxRating == 5
Ratings == 0..(MaxRating + 1)

\* The conversion of the rating: 4 and 5 are a like, 1 and 2 a dislike, 3 is
\* neutral and not stored.
simple_feedback_type_of_storing_neutral(rating) ==
  IF rating >= 4 THEN "like" ELSE "dislike"
simple_feedback_type_of(rating) ==
  IF rating >= 4 THEN "like" ELSE IF rating <= 2 THEN "dislike" ELSE "neutral"

\* handlers/feedback/submit.py up to the SELECT of the existing feedback.
\* user_id is the body's user_id (NoUser when the body has none);
\* article_position 0 is overall.  The request keeps who it said it was in
\* requester.
feedback_submit_check(f, user_id, run_id, article_position, rating) ==
  /\ FirstIdle(fb, f)
  /\ IF rating = 0
       THEN /\ response' = Answer("400_rating_required")
            /\ UNCHANGED fb
     ELSE IF rating < 1 \/ rating > MaxRating
       THEN /\ response' = Answer("400_rating_range")
            /\ UNCHANGED fb
     ELSE IF run_id \notin RunIds
       THEN /\ response' = Answer("404_run_not_found")
            /\ UNCHANGED fb
     ELSE LET db_user_id == run_tracker[run_id].user_id
              effective_user == IF user_id = NoUser THEN db_user_id ELSE user_id
          IN IF effective_user # db_user_id
               THEN /\ response' = Answer("403_not_authorized")
                    /\ UNCHANGED fb
             ELSE IF /\ article_position > 0
                     /\ \/ article_count(run_id) = 0
                        \/ article_position > article_count(run_id)
               THEN /\ response' = Answer("400_article_position")
                    /\ UNCHANGED fb
             ELSE IF simple_feedback_type_of(rating) = "neutral"
               THEN /\ response' = Answer("200_neutral")
                    /\ UNCHANGED fb
             ELSE LET found == existing_feedback_query(user_feedback, run_id,
                                                      effective_user, article_position)
                  IN /\ \E i \in (IF found = {} THEN {0} ELSE found) :
                          fb' = [fb EXCEPT ![f] =
                                   [pc |-> "write", handler |-> "legacy",
                                    requester |-> user_id,
                                    user_id |-> effective_user, ref |-> run_id,
                                    article_position |-> article_position,
                                    feedback_type |-> simple_feedback_type_of(rating),
                                    existing_id |-> i,
                                    existing_type |-> IF i = 0 THEN Null
                                                      ELSE user_feedback[i].feedback_type]]
                     /\ response' = NoResponse
  /\ UNCHANGED <<user_feedback, ai, now, brews, run_tracker, curator_logs, editor_logs,
                 executions, emails, sent_date_by, trig, sweep, wk>>

\* The authenticated endpoint up to the SELECT of OptimizedQueries.submit_feedback:
\* authenticate_user (user_id is the authenticated user, NoUser when the token
\* is missing or invalid), validate_ownership('editorial', editorial_id), then
\* the SELECT.  article_position NoPosition is overall (NULL).
api_feedback_submit_check(f, user_id, editorial_id, article_position, feedback_value) ==
  /\ FirstIdle(fb, f)
  /\ IF user_id = NoUser
       THEN /\ response' = Answer("401_invalid_authorization")
            /\ UNCHANGED fb
     ELSE IF \/ editorial_id \notin 1..Len(editor_logs)
             \/ run_tracker[editor_logs[editorial_id].run_id].user_id # user_id
       THEN /\ response' = Answer("403_access_denied")
            /\ UNCHANGED fb
     ELSE LET found == submit_feedback_select(user_feedback, user_id, editorial_id,
                                              article_position)
          IN /\ \E i \in (IF found = {} THEN {0} ELSE found) :
                  fb' = [fb EXCEPT ![f] =
                           [pc |-> "write", handler |-> "api",
                            requester |-> user_id,
                            user_id |-> user_id, ref |-> editorial_id,
                            article_position |-> article_position,
                            feedback_type |-> feedback_value,
                            existing_id |-> i,
                            existing_type |-> IF i = 0 THEN Null
                                              ELSE user_feedback[i].feedback_type]]
             /\ response' = NoResponse
  /\ UNCHANGED <<user_feedback, ai, now, brews, run_tracker, curator_logs, editor_logs,
                 executions, emails, sent_date_by, trig, sweep, wk>>

\* The row either handler inserts.
new_feedback_row(req) ==
  [run_id |-> IF req.handler = "legacy" THEN req.ref ELSE NoRun,
   editorial_id |-> IF req.handler = "api" THEN req.ref ELSE 0,
   user_id |-> req.user_id,
   article_position |-> req.article_position,
   feedback_type |-> req.feedback_type]

\* One submission run from its SELECT to its commit with nothing in between
\* (req holds handler, ref, user_id, article_position, feedback_type): the
\* tables it can leave, one for each row fetchone() may return.
submit_feedback_select_of(rows, req) ==
  IF req.handler = "legacy"
    THEN existing_feedback_query(rows, req.ref, req.user_id, req.article_position)
    ELSE submit_feedback_select(rows, req.user_id, req.ref, req.article_position)
submit_feedback(rows, req) ==
  LET found == submit_feedback_select_of(rows, req)
  IN {toggle_write(rows, i, IF i = 0 THEN Null ELSE rows[i].feedback_type,
                   req.feedback_type, new_feedback_row(req)) :
        i \in (IF found = {} THEN {0} ELSE found)}

\* The DELETE, UPDATE or INSERT of a submission and its commit, in either
\* handler.
feedback_submit_write(f) ==
  /\ fb[f].pc = "write"
  /\ LET req == fb[f]
         action == toggle_action(user_feedback, req.existing_id, req.existing_type,
                                 req.feedback_type)
     IN /\ action = "submitted" => Len(user_feedback) < MaxFeedbackRows
        /\ user_feedback' = toggle_write(user_feedback, req.existing_id,
                                         req.existing_type, req.feedback_type,
                                         new_feedback_row(req))
        /\ response' = Answer(IF action = "raised" THEN "500_feedback" ELSE action)
  /\ fb' = [fb EXCEPT ![f] = IdleFeedback]
  /\ UNCHANGED <<ai, now, brews, run_tracker, curator_logs, editor_logs,
                 executions, emails, sent_date_by, trig, sweep, wk>>

\* ---- reads
\* What a read hands out: the data of a run, and the user it is handed to.
RunData(result, run_id, to) ==
  [result |-> result, run_id |-> run_id, stage |-> Null, to |-> to]

\* handlers/briefings/get_by_id.py: the editor log of the run is looked up by
\* run_id alone and returned.  The handler reads nothing about who is asking:
\* caller is whoever sent the request.
briefing_get_by_id_legacy(caller, run_id) ==
  /\ response' = IF LogsOf(editor_logs, run_id) = {}
                   THEN Answer("404_briefing_not_found")
                   ELSE RunData("200_briefing", run_id, caller)
  /\ UNCHANGED <<user_feedback, fb, ai, now, brews, run_tracker, curator_logs, editor_logs,
                 executions, emails, sent_date_by, trig, sweep, wk>>

\* api_endpoints/briefings/get_by_id.py: authentication, then
\* validate_ownership('briefing', run_id), then the editor log of that run and
\* user.
briefing_get_by_id(user_id, run_id) ==
  /\ response' =
       IF user_id = NoUser THEN Answer("401_invalid_authorization")
       ELSE IF run_id \notin RunIds \/ run_tracker[run_id].user_id # user_id
         THEN Answer("403_access_denied")
       ELSE IF LogsOf(editor_logs, run_id) = {} THEN Answer("404_briefing_not_found")
       ELSE RunData("200_briefing", run_id, user_id)
  /\ UNCHANGED <<user_feedback, fb, ai, now, brews, run_tracker, curator_logs, editor_logs,
                 executions, emails, sent_date_by, trig, sweep, wk>>

\* handlers/feedback/get_status.py: the user named by the query parameter is
\* looked up, then the run of that id and user.
feedback_get_status_legacy(user_id, run_id) ==
  /\ response' =
       IF user_id = NoUser THEN Answer("400_user_id_required")
       ELSE IF user_id \notin Users THEN Answer("404_user_not_found")
       ELSE IF run_id \notin RunIds \/ run_tracker[run_id].user_id # user_id
         THEN Answer("404_run_not_found")
       ELSE RunData("200_feedback_status", run_id, user_id)
  /\ UNCHANGED <<user_feedback, fb, ai, now, brews, run_tracker, curator_logs, editor_logs,
                 executions, emails, sent_date_by, trig, sweep, wk>>

\* api_endpoints/feedback/get_status.py: authentication, then
\* validate_ownership('editorial', editorial_id), then the feedback of that
\* editorial and user.
feedback_get_status(user_id, editorial_id) ==
  /\ response' =
       IF user_id = NoUser THEN Answer("401_invalid_authorization")
       ELSE IF \/ editorial_id \notin 1..Len(editor_logs)
               \/ run_tracker[editor_logs[editorial_id].run_id].user_id # user_id
         THEN Answer("403_access_denied")
       ELSE RunData("200_feedback_status", editor_logs[editorial_id].run_id, user_id)
  /\ UNCHANGED <<user_feedback, fb, ai, now, brews, run_tracker, curator_logs, editor_logs,
                 executions, emails, sent_date_by, trig, sweep, wk>>

\* ----------------------------------------------------------- specifications
TriggerNext(slots, brew_ids) ==
  \/ \E t \in slots, brew_id \in brew_ids : trigger_brew_check(t, brew_id)
  \/ \E t \in slots : trigger_brew_insert(t)
  \/ \E t \in slots : trigger_brew_exec(t)

SchedulerNext ==
  \/ brew_scheduler_query
  \/ brew_scheduler_create
  \/ brew_scheduler_exec
  \/ brew_scheduler_return

WorkerNext(slots, brew_ids, run_ids) ==
  \/ \E w \in slots, brew_id \in brew_ids, run_id \in run_ids, e \in BOOLEAN :
       news_curator_check(w, brew_id, run_id, e)
  \/ \E w \in slots, u \in CuratorReplies : news_curator_call(w, u)
  \/ \E w \in slots : news_curator_finish(w)
  \/ \E w \in slots, run_id \in run_ids, e \in BOOLEAN : news_editor_check(w, run_id, e)
  \/ \E w \in slots, u \in EditorReplies : news_editor_call(w, u)
  \/ \E w \in slots : news_editor_finish(w)
  \/ \E w \in slots, run_id \in run_ids, e \in {"none", "connect", "query"} :
       email_dispatcher_check(w, run_id, e)
  \/ \E w \in slots, accepted \in BOOLEAN : email_dispatcher_send(w, accepted)
  \/ \E w \in slots, e \in BOOLEAN : email_dispatcher_update(w, e)

\* Admission: concurrent manual triggers and scheduler sweeps over time.  A
\* request names a brew, a brew that does not exist (NumBrews + 1) or none (0).
NextAdmission == Tick \/ TriggerNext(Triggers, 0..(NumBrews + 1)) \/ SchedulerNext
SpecAdmission == Init /\ [][NextAdmission]_vars

\* Pipeline: concurrent worker invocations on admitted runs.  It starts where
\* admission has created one run for each of the first MaxPipelineRuns brews
\* and started its execution.
PipelineRuns == 1..MaxPipelineRuns
InitPipeline ==
  /\ now = 0
  /\ brews = [b \in Brews |-> [is_active |-> TRUE, last_sent_date |-> NullTime]]
  /\ run_tracker = [r \in PipelineRuns |-> NewRun(r)]
  /\ curator_logs = <<>>
  /\ editor_logs = <<>>
  /\ executions = PipelineRuns
  /\ emails = [r \in 1..MaxRuns |-> 0]
  /\ sent_date_by = {}
  /\ trig = [t \in Triggers |-> IdleTrigger]
  /\ sweep = IdleSweep
  /\ wk = [w \in Workers |-> IdleWorker]
  /\ ai = IdleCall
  /\ user_feedback = <<>>
  /\ fb = [f \in FeedbackSlots |-> IdleFeedback]
  /\ response = NoResponse
NextPipeline == WorkerNext(Workers, PipelineRuns, PipelineRuns)
SpecPipeline == InitPipeline /\ [][NextPipeline]_vars

\* Lifecycle: one brew from the manual trigger to the end of its run, one
\* request and one worker invocation at a time.
NextLifecycle ==
  \/ TriggerNext({1}, {1}) /\ Len(run_tracker') <= MaxPipelineRuns
  \/ WorkerNext({1}, PipelineRuns, PipelineRuns)
SpecLifecycle == Init /\ [][NextLifecycle]_vars

\* Day: the scheduler sweep over a day beside the manual trigger and the
\* pipeline of the last brew (the one whose owner's date differs from the UTC
\* date), one request and one worker invocation at a time.
NextDay ==
  \/ Tick
  \/ TriggerNext({1}, {NumBrews}) /\ Len(run_tracker') <= MaxPipelineRuns
  \/ SchedulerNext
  \/ WorkerNext({1}, {NumBrews}, PipelineRuns)
SpecDay == Init /\ [][NextDay]_vars

\* Generation: calls of the generation-service client, one at a time.
NextGeneration ==
  \/ \E provider \in Providers : ai_service_start(provider)
  \/ call_perplexity_attempt
  \/ call_openai
  \/ ai_service_return
SpecGeneration == Init /\ [][NextGeneration]_vars

\* Worker with generation: one worker invocation at a time on an admitted run,
\* with the generation call it makes.  The call runs while the worker is at
\* its call step (the curator calls Perplexity with prompt=, the editor OpenAI
\* with messages=); the worker goes on when the call has finished, with a text
\* if the call returned one and with the error if it raised.
ProviderOf(kind) == IF kind = "curator" THEN "perplexity" ELSE "openai"
NextWorkerGeneration ==
  \/ /\ wk[1].pc = "call" /\ ai.pc \in {"idle", "request"}
     /\ \/ ai_service_start(ProviderOf(wk[1].kind))
        \/ call_perplexity_attempt
        \/ call_openai
  \/ /\ wk[1].pc = "call" /\ ai.pc = "done"
     /\ \/ \E u \in CuratorReplies :
             /\ (ai_service_call(u) = "error") = (ai.result = "error")
             /\ news_curator_call(1, u)
        \/ \E u \in EditorReplies :
             /\ (ai_service_call(u) = "error") = (ai.result = "error")
             /\ news_editor_call(1, u)
  \/ wk[1].pc # "call" /\ ai_service_return
  \/ /\ wk[1].pc # "call" /\ ai.pc = "idle"
     /\ WorkerNext({1}, PipelineRuns, PipelineRuns)
SpecWorkerGeneration == InitPipeline /\ [][NextWorkerGeneration]_vars

\* Feedback: concurrent feedback submissions and reads, by the owner of a run,
\* by another user and by nobody in particular, after the pipeline has
\* completed the run of the first brew (one curated article, a full draft,
\* the email sent at tick 0).
FeedbackUsers == Users \cup {NoUser}
InitFeedback ==
  /\ now = 0
  /\ brews = [b \in Brews |-> [is_active |-> TRUE,
                               last_sent_date |-> IF b = 1 THEN 0 ELSE NullTime]]
  /\ run_tracker = <<[NewRun(1) EXCEPT !.current_stage = "completed"]>>
  /\ curator_logs = <<[run_id |-> 1, raw_articles |-> <<CurArticle>>,
                       raw_llm_response |-> "cur_one", parsed |-> TRUE]>>
  /\ editor_logs = <<[run_id |-> 1, raw_llm_response |-> "draft_full",
                      editorial_content |-> parse_json_from_response("draft_full"),
                      email_sent |-> TRUE]>>
  /\ executions = {1}
  /\ emails = [r \in 1..MaxRuns |-> IF r = 1 THEN 1 ELSE 0]
  /\ sent_date_by = {1}
  /\ trig = [t \in Triggers |-> IdleTrigger]
  /\ sweep = IdleSweep
  /\ wk = [w \in Workers |-> IdleWorker]
  /\ ai = IdleCall
  /\ user_feedback = <<>>
  /\ fb = [f \in FeedbackSlots |-> IdleFeedback]
  /\ response = NoResponse
NextFeedbackOf(slots) ==
  \/ \E f \in slots, user_id \in FeedbackUsers, run_id \in 1..MaxRuns,
        article_position \in {0, 1}, rating \in Ratings :
       feedback_submit_check(f, user_id, run_id, article_position, rating)
  \/ \E f \in slots, user_id \in FeedbackUsers, editorial_id \in 1..MaxRuns,
        article_position \in {1}, t \in Reactions :
       api_feedback_submit_check(f, user_id, editorial_id, article_position, t)
  \/ \E f \in slots : feedback_submit_write(f)
  \/ \E caller \in FeedbackUsers, run_id \in 1..MaxRuns :
       briefing_get_by_id_legacy(caller, run_id)
  \/ \E user_id \in FeedbackUsers, run_id \in 1..MaxRuns : briefing_get_by_id(user_id, run_id)
  \/ \E user_id \in FeedbackUsers, run_id \in 1..MaxRuns :
       feedback_get_status_legacy(user_id, run_id)
  \/ \E user_id \in FeedbackUsers, editorial_id \in 1..MaxRuns :
       feedback_get_status(user_id, editorial_id)
NextFeedback == NextFeedbackOf(FeedbackSlots)
SpecFeedback == InitFeedback /\ [][NextFeedback]_vars

\* The same requests, one at a time.
NextFeedbackSequential == NextFeedbackOf({1})
SpecFeedbackSequential == InitFeedback /\ [][NextFeedbackSequential]_vars

\* Sweeps: the scheduler alone creates the runs, over a day, beside the
\* pipeline of the first run, one worker invocation at a time.
NextSweeps ==
  \/ Tick
  \/ SchedulerNext
  \/ WorkerNext({1}, Brews, PipelineRuns)
SpecSweeps == Init /\ [][NextSweeps]_vars

\* ------------------------------------------------------------------- claims
StageOf(r) == run_tracker[r].current_stage

\* C1: in every reachable state each brew has at most one run whose
\* current_stage is curator, editor or dispatcher, under any interleaving of
\* scheduler sweeps and manual triggers.
C1_AtMostOneActiveRun == \A b \in Brews : Cardinality(InProgressRuns(b)) <= 1

\* C2: every change of a run's current_stage is one step of curator, editor,
\* dispatcher, completed, or a move from a working stage to failed: no stage
\* is skipped and no run moves to an earlier stage.
ForwardSteps ==
  {<<"curator", "editor">>, <<"editor", "dispatcher">>, <<"dispatcher", "completed">>}
C2_StageOrder ==
  [][\A r \in RunIds :
       StageOf(r) # run_tracker'[r].current_stage =>
         \/ <<StageOf(r), run_tracker'[r].current_stage>> \in ForwardSteps
         \/ StageOf(r) \in WorkingStages /\ run_tracker'[r].current_stage = "failed"]_vars

\* C3: once a run's current_stage is completed or failed it never changes.
C3_TerminalIsFinal ==
  [][\A r \in RunIds :
       StageOf(r) \in TerminalStages => run_tracker'[r].current_stage = StageOf(r)]_vars

\* C4: an invocation that has passed its stage check changes the run's
\* current_stage (advance or fail) only if, at the moment of the write, the
\* run's current_stage is still the worker's own stage.
C4_WriteOnlyInOwnStage ==
  [][\A w \in Workers :
       (/\ wk[w].pc # "idle"
        /\ wk'[w] # wk[w]
        /\ run_tracker'[wk[w].run_id].current_stage # StageOf(wk[w].run_id))
       => StageOf(wk[w].run_id) = wk[w].kind]_vars

\* C5: a curator, editor or dispatcher invocation that reads a run whose
\* current_stage is not its own stage answers with the wrong-stage error,
\* goes no further and writes nothing: runs, logs, brews, sent emails and
\* executions are unchanged.
ReadsWrongStage(w, r) ==
  \/ \E b \in Brews : /\ news_curator_check(w, b, r, FALSE)
                      /\ brews[b].is_active /\ run_tracker[r].brew_id = b
                      /\ StageOf(r) # "curator"
  \/ news_editor_check(w, r, FALSE) /\ StageOf(r) # "editor"
  \/ email_dispatcher_check(w, r, "none") /\ StageOf(r) # "dispatcher"
C5_WrongStageWritesNothing ==
  [][\A w \in Workers, r \in RunIds :
       ReadsWrongStage(w, r) =>
         /\ response'.result = "400_wrong_stage"
         /\ wk' = wk
         /\ UNCHANGED <<brews, run_tracker, curator_logs, editor_logs, executions,
                        emails, sent_date_by>>]_vars
C5_Witness ==
  /\ response.result = "400_wrong_stage"
  /\ \E r \in RunIds : StageOf(r) \in {"editor", "dispatcher", "completed", "failed"}

\* C6: in every state, for each run, 'current_stage = completed', 'an editor
\* log of the run has email_sent = true' and 'the brew's last_sent_date was set
\* by this run' are all true or all false.
EmailSentLogged(r) == \E i \in LogsOf(editor_logs, r) : editor_logs[i].email_sent
C6_CompletionFactsAgree ==
  \A r \in RunIds :
    /\ (StageOf(r) = "completed") <=> EmailSentLogged(r)
    /\ (StageOf(r) = "completed") <=> (r \in sent_date_by)

\* C7: when the mail transport has accepted the email of a run and no
\* dispatcher invocation is still between the send and its update, the run is
\* completed: never still dispatcher, never failed.
C7_SentImpliesCompleted ==
  \A r \in RunIds :
    (/\ emails[r] > 0
     /\ ~ \E w \in Workers : wk[w].pc = "update" /\ wk[w].run_id = r)
    => StageOf(r) = "completed"

\* C8: when the mail send raises, the step leaves the run failed with
\* failed_stage = dispatcher and an error message, and changes neither the
\* editor logs (email_sent stays as it was) nor the brew's last_sent_date.
C8_SendFailureRecorded ==
  [][\A w \in Workers :
       (/\ wk[w].pc = "send" /\ wk[w].kind = "dispatcher"
        /\ wk'[w] # wk[w]
        /\ response'.result = "raised_smtp")
       => /\ run_tracker'[wk[w].run_id].current_stage = "failed"
          /\ run_tracker'[wk[w].run_id].failed_stage = "dispatcher"
          /\ run_tracker'[wk[w].run_id].error_message # Null
          /\ editor_logs' = editor_logs
          /\ brews' = brews
          /\ sent_date_by' = sent_date_by
          /\ emails' = emails]_vars
C8_Witness ==
  /\ response.result = "raised_smtp"
  /\ \E r \in RunIds : /\ StageOf(r) = "failed"
                       /\ run_tracker[r].failed_stage = "dispatcher"
                       /\ ~EmailSentLogged(r)
                       /\ brews[run_tracker[r].brew_id].last_sent_date = NullTime

\* C9: every curator log and every editor log has a non-null raw response,
\* parsed or not, and an invocation that is about to parse has its log row
\* with the raw response already stored.
RawStored(logs, w) ==
  /\ wk[w].log_id \in LogsOf(logs, wk[w].run_id)
  /\ logs[wk[w].log_id].raw_llm_response # Null
C9_RawResponseStored ==
  /\ \A i \in 1..Len(curator_logs) : curator_logs[i].raw_llm_response # Null
  /\ \A i \in 1..Len(editor_logs) : editor_logs[i].raw_llm_response # Null
  /\ \A w \in Workers :
       wk[w].pc = "parse" =>
         IF wk[w].kind = "curator" THEN RawStored(curator_logs, w)
                                   ELSE RawStored(editor_logs, w)
C9_Witness ==
  /\ \E i \in 1..Len(curator_logs) : ~curator_logs[i].parsed
  /\ \E i \in 1..Len(editor_logs) : editor_logs[i].editorial_content = JsonNull
  /\ \E w \in Workers : wk[w].pc = "parse"

\* C10: the curator commits its log with the raw text and an empty article
\* list before parsing; when the text does not parse, the step leaves the
\* curator logs as they are (the row keeps its raw text, and its article list
\* is empty unless another invocation's update filled it) and the run failed
\* with failed_stage = curator and an error message.
CuratorInserts(w) ==
  /\ wk[w].kind = "curator" /\ wk[w].pc = "call" /\ wk'[w].pc = "parse"
CuratorParseFails(w) ==
  /\ wk[w].kind = "curator" /\ wk[w].pc = "parse" /\ wk'[w] # wk[w]
  /\ parse_json_from_response(curator_logs[wk[w].log_id].raw_llm_response).kind = "error"
C10_UnparseableCuratorResponse ==
  [][\A w \in Workers :
       /\ CuratorInserts(w) =>
            /\ Len(curator_logs') = Len(curator_logs) + 1
            /\ SubSeq(curator_logs', 1, Len(curator_logs)) = curator_logs
            /\ curator_logs'[wk'[w].log_id].run_id = wk[w].run_id
            /\ curator_logs'[wk'[w].log_id].raw_llm_response # Null
            /\ curator_logs'[wk'[w].log_id].raw_articles = <<>>
       /\ CuratorParseFails(w) =>
            /\ curator_logs' = curator_logs
            /\ ~curator_logs[wk[w].log_id].parsed =>
                 curator_logs[wk[w].log_id].raw_articles = <<>>
            /\ run_tracker'[wk[w].run_id].current_stage = "failed"
            /\ run_tracker'[wk[w].run_id].failed_stage = "curator"
            /\ run_tracker'[wk[w].run_id].error_message # Null]_vars
C10_Witness ==
  /\ response.result = "raised_parse"
  /\ \E r \in RunIds :
       /\ StageOf(r) = "failed" /\ run_tracker[r].failed_stage = "curator"
       /\ \E i \in LogsOf(curator_logs, r) :
            /\ curator_logs[i].raw_llm_response = "garbage"
            /\ curator_logs[i].raw_articles = <<>>

\* C11: an editor invocation that read zero curated articles still makes the
\* generation call (it stores the response, or fails with the call's own
\* error), and an editor whose stored response is a valid draft moves the
\* run to dispatcher.
EditorStep(w, pc) == wk[w].kind = "editor" /\ wk[w].pc = pc /\ wk'[w] # wk[w]
C11_ZeroArticlesIsNoError ==
  [][\A w \in Workers :
       /\ (EditorStep(w, "call") /\ wk[w].raw_articles = <<>>) =>
            \/ /\ wk'[w].pc = "parse"
               /\ Len(editor_logs') = Len(editor_logs) + 1
               /\ run_tracker' = run_tracker
            \/ run_tracker'[wk[w].run_id].error_message = "API error"
       /\ (/\ EditorStep(w, "parse")
           /\ draft_valid(parse_json_from_response(
                            editor_logs[wk[w].log_id].raw_llm_response))) =>
            run_tracker'[wk[w].run_id].current_stage = "dispatcher"]_vars
C11_Witness ==
  /\ response.result = "200"
  /\ \E r \in RunIds :
       /\ StageOf(r) = "dispatcher"
       /\ LogsOf(curator_logs, r) # {}
       /\ \A i \in LogsOf(curator_logs, r) :
            curator_logs[i].parsed /\ curator_logs[i].raw_articles = <<>>

\* C12: a manual trigger that finds a run of the brew in curator, editor or
\* dispatcher is answered 409 with the id and the stage of such a run; it
\* inserts no run, starts no execution and goes no further.
C12_ConflictRejected ==
  [][\A t \in Triggers, b \in Brews :
       (/\ trigger_brew_check(t, b)
        /\ brews[b].is_active
        /\ InProgressRuns(b) # {})
       => /\ response'.result = "409_run_in_progress"
          /\ response'.run_id \in InProgressRuns(b)
          /\ response'.stage = StageOf(response'.run_id)
          /\ UNCHANGED <<now, brews, run_tracker, curator_logs, editor_logs,
                         executions, emails, sent_date_by, trig, sweep, wk>>]_vars
C12_Witness ==
  /\ response.result = "409_run_in_progress"
  /\ response.run_id \in RunIds
  /\ response.stage \in {"editor", "dispatcher"}
  /\ StageOf(response.run_id) = response.stage

\* C13: a manual trigger with no brew_id, with a brew_id that does not exist
\* or for a brew that is not active is answered 400, 404, 400 and changes
\* nothing: no run, no execution, no request left in flight.
C13_BadRequestRejected ==
  [][\A t \in Triggers, b \in 0..(NumBrews + 1) :
       (/\ trigger_brew_check(t, b)
        /\ (b = 0 \/ b \notin Brews \/ ~brews[b].is_active))
       => /\ response'.result =
               IF b = 0 THEN "400_brew_id_required"
               ELSE IF b \notin Brews THEN "404_brew_not_found"
               ELSE "400_brew_not_active"
          /\ UNCHANGED <<now, brews, run_tracker, curator_logs, editor_logs,
                         executions, emails, sent_date_by, trig, sweep, wk>>]_vars
C13_Witness ==
  /\ response.result = "400_brew_not_active"
  /\ \E b \in Brews : ~brews[b].is_active /\ \A r \in RunIds : run_tracker[r].brew_id # b
  /\ run_tracker # <<>>

\* C14: a run that is inserted starts in stage curator and has no execution
\* yet; an execution is started only for a run whose insert was committed in
\* an earlier step.
C14_RunStartsAtCurator ==
  [][/\ \A r \in 1..Len(run_tracker') :
          r > Len(run_tracker) =>
            /\ run_tracker'[r].current_stage = "curator"
            /\ r \notin executions'
     /\ (executions' \ executions) \subseteq RunIds]_vars
C14_Witness ==
  /\ executions # {}
  /\ \E r \in RunIds : r \notin executions /\ StageOf(r) = "curator"
  /\ \E r \in RunIds : r \in executions /\ StageOf(r) = "curator"

\* C15: whenever a run's current_stage is failed, its failed_stage is one of
\* curator, editor, dispatcher and its error_message is set.
C15_FailedRunIsDescribed ==
  \A r \in RunIds :
    StageOf(r) = "failed" =>
      /\ run_tracker[r].failed_stage \in WorkingStages
      /\ run_tracker[r].error_message # Null

\* C16: the scheduler never creates a run for a brew that already has a run in
\* curator, editor or dispatcher, however long ago that run was created.
\* Checked for the runs the claim singles out, the old ones: when the sweep
\* has just inserted a run for a brew, that brew has no other run that was
\* created two hours ago or earlier and is still in a working stage.
C16_SchedulerSkipsBrewInProgress ==
  sweep.pc = "exec" =>
    \A r \in RunIds \ {sweep.run_id} :
      /\ run_tracker[r].brew_id = run_tracker[sweep.run_id].brew_id
      /\ run_tracker[r].created_at <= now - StaleTicks
      => StageOf(r) \notin WorkingStages

\* C17: the scheduler never creates a run for a brew whose last_sent_date
\* falls on the current date in its owner's timezone: the sweep creates runs
\* only for the rows of its eligibility query, and the query returns no brew
\* that was sent today, by the owner's calendar.
SchedulerCreates ==
  brew_scheduler_create /\ Len(run_tracker') > Len(run_tracker)
SentToday(b) ==
  /\ brews[b].last_sent_date # NullTime
  /\ LocalDate(brews[b].last_sent_date + BrewTz(b)) = LocalDate(LocalNow(b))
Elems(q) == {q[i] : i \in 1..Len(q)}
SweepLists(s) == s.triggered_brews \o s.failed_triggers \o s.brews_to_trigger
SweepFailsBrew ==
  /\ brew_scheduler_create \/ brew_scheduler_exec
  /\ Len(sweep'.failed_triggers) > Len(sweep.failed_triggers)
C18_SweepProcessesEveryBrew ==
  [][/\ brew_scheduler_query =>
          Cardinality(Elems(sweep'.brews_to_trigger)) = Len(sweep'.brews_to_trigger)
     /\ sweep.pc # "idle" /\ sweep' # sweep =>
          /\ Elems(SweepLists(sweep')) = Elems(SweepLists(sweep))
          /\ Len(SweepLists(sweep')) = Len(SweepLists(sweep))
          /\ sweep'.pc = "idle" =>
               /\ sweep'.brews_to_trigger = <<>>
               /\ response'.result = "200"
     /\ SweepFailsBrew =>
          /\ sweep'.failed_triggers =
               Append(sweep.failed_triggers, Head(sweep.brews_to_trigger))
          /\ sweep'.triggered_brews = sweep.triggered_brews
          /\ sweep'.brews_to_trigger = Tail(sweep.brews_to_trigger)
          /\ sweep'.pc = "loop"]_vars
\* A sweep has returned its summary after the start of the pipeline failed for
\* the first brew (run 1) and succeeded for the second (run 2).
C18_Witness ==
  /\ sweep.pc = "idle" /\ response.result = "200"
  /\ Len(run_tracker) = 2
  /\ run_tracker[1].brew_id \in Elems(sweep.failed_triggers)
  /\ run_tracker[2].brew_id \in Elems(sweep.triggered_brews)
  /\ executions = {2}

\* C19: when a generation request times out or hits a connection error and a
\* later attempt would succeed, the call is retried and returns the response
\* of the successful attempt; only when every attempt fails does the error
\* reach the worker.  For a finished Perplexity call: if the requests before
\* the k-th would all hit transient errors and the k-th would be answered with
\* a text, the call returns that text and not an error.
IsText(outcome) == outcome \notin TransientErrors \cup {Null, "http_error"}
C19_RetryUntilSuccess ==
  ai.pc = "done" /\ ai.provider = "perplexity" =>
    \A k \in 1..(max_retries + 1) :
      /\ \A j \in 1..(k - 1) : ai.plan[j] \in TransientErrors
      /\ IsText(ai.plan[k])
      => ai.result = ai.plan[k]

\* C20: for one generation call, on repeated timeout or connection errors the
\* client makes at most 3 HTTP attempts in total and then gives up with an
\* error; the delay before each retry doubles, starting at 2 seconds.  For a
\* finished Perplexity call whose requests would all hit transient errors: it
\* ended in an error, after one to three requests, by giving up on the retries
\* (the last request was a retry), and the i-th retry was made 2^i seconds
\* after the failure before it.
AllTransient == \A k \in 1..(max_retries + 1) : ai.plan[k] \in TransientErrors
C20_BoundedBackoff ==
  ai.pc = "done" /\ ai.provider = "perplexity" /\ AllTransient =>
    /\ ai.result = "error"
    /\ ai.requests <= 3
    /\ ai.requests > 1
    /\ ai.delays = [i \in 1..(ai.requests - 1) |-> 2 ^ i]

\* C21: business-level generation failures are never retried.  A request that
\* is answered with a status other than 200, or with 200 and no content, ends
\* the call with an error, and when it was the first request of the call it
\* was the only one; and a curator or editor invocation that has made its
\* generation call never goes back to the call step: it parses what it got and
\* then ends, with the run failed when the text was unparseable or invalid.
BusinessFailures == {"http_error", Null}
C21_NoRetryOnBusinessFailure ==
  [][/\ /\ ai.pc = "request" /\ ai' # ai
        /\ ai.plan[ai.attempt + 1] \in BusinessFailures
        => /\ ai'.pc = "done" /\ ai'.result = "error"
           /\ ai'.requests = ai.requests + 1
           /\ ai.attempt = 0 => ai'.requests = 1
     /\ \A w \in Workers :
          /\ wk[w].kind \in {"curator", "editor"} /\ wk'[w] # wk[w]
          => /\ wk[w].pc = "call" => wk'[w].pc \in {"parse", "idle"}
             /\ wk[w].pc = "parse" =>
                  /\ wk'[w].pc = "idle"
                  /\ ai' = ai
                  /\ response'.result = "raised_parse" =>
                       run_tracker'[wk[w].run_id].current_stage = "failed"]_vars
\* The curator's Perplexity call has ended in an error after one request,
\* which was answered with a status other than 200 although a second request
\* would have been answered with a text.
C21_Witness ==
  /\ wk[1].kind = "curator" /\ wk[1].pc = "call"
  /\ ai.pc = "done" /\ ai.provider = "perplexity"
  /\ ai.plan[1] = "http_error" /\ IsText(ai.plan[2])
  /\ ai.requests = 1 /\ ai.result = "error"


\* The submissions a client can make: a key and a reaction.
Submissions ==
  [handler : {"legacy", "api"}, ref : 1..MaxRuns, user_id : Users,
   article_position : {NoPosition, 0, 1}, feedback_type : Reactions]
Opposite(t) == IF t = "like" THEN "dislike" ELSE "like"

\* C22 (as stated): from any feedback state, two submissions of the same
\* reaction for the same key in a row leave no record for the key, and a
\* submission of the opposite reaction when a record exists changes that
\* record's value in place.
C22_ToggleFromAnyState ==
  \A req \in Submissions :
    /\ \A once \in submit_feedback(user_feedback, req) :
         \A twice \in submit_feedback(once, req) :
           submit_feedback_select_of(twice, req) = {}
    /\ \A i \in submit_feedback_select_of(user_feedback, req) :
         user_feedback[i].feedback_type = Opposite(req.feedback_type) =>
           toggle_write(user_feedback, i, user_feedback[i].feedback_type,
                        req.feedback_type, new_feedback_row(req))
             = [user_feedback EXCEPT ![i].feedback_type = req.feedback_type]

\* C22 (amended): from a feedback state in which the key has no record, or one
\* record holding the opposite reaction, two submissions of the same reaction
\* for the same key in a row leave no record for the key; a submission of the
\* opposite reaction when a record exists changes that record's value in
\* place and adds no row.
C22_Toggle ==
  \A req \in Submissions :
    LET found == submit_feedback_select_of(user_feedback, req)
    IN /\ (\/ found = {}
           \/ /\ Cardinality(found) = 1
              /\ \A i \in found :
                   user_feedback[i].feedback_type = Opposite(req.feedback_type))
          => \A once \in submit_feedback(user_feedback, req) :
               \A twice \in submit_feedback(once, req) :
                 submit_feedback_select_of(twice, req) = {}
       /\ \A i \in found :
            user_feedback[i].feedback_type = Opposite(req.feedback_type) =>
              toggle_write(user_feedback, i, user_feedback[i].feedback_type,
                           req.feedback_type, new_feedback_row(req))
                = [user_feedback EXCEPT ![i].feedback_type = req.feedback_type]
\* The second of two equal submissions has just removed the record the first
\* one made: the table holds nothing but the place of the removed row.
C22_Witness ==
  /\ response.result = "removed"
  /\ Len(user_feedback) = 1
  /\ LiveIds(user_feedback) = {}
  /\ \A f \in FeedbackSlots : fb[f].pc = "idle"


\* C23: after any interleaving of feedback submissions there is at most one
\* feedback record per (run or editorial, user, article position) key.
FeedbackKey(row) == <<row.run_id, row.editorial_id, row.user_id, row.article_position>>
C23_OneRecordPerKey ==
  \A i, j \in LiveIds(user_feedback) :
    FeedbackKey(user_feedback[i]) = FeedbackKey(user_feedback[j]) => i = j


\* C24: a feedback submission creates, updates or deletes a feedback record
\* only when the requesting user owns the run or editorial it refers to; a
\* request from any other user, or one that does not identify its user,
\* changes nothing.
OwnerOf(req) ==
  IF req.handler = "legacy" THEN run_tracker[req.ref].user_id
  ELSE run_tracker[editor_logs[req.ref].run_id].user_id
C24_OnlyOwnerWrites ==
  [][\A f \in FeedbackSlots :
       feedback_submit_write(f) /\ user_feedback' # user_feedback
         => fb[f].requester = OwnerOf(fb[f])]_vars


\* C25: briefing details and feedback status of a run are returned only to the
\* user who owns that run.
C25_OnlyOwnerReads ==
  response.result \in {"200_briefing", "200_feedback_status"}
    => response.to = run_tracker[response.run_id].user_id


\* C26: each run has at most one curator log and at most one editor log, after
\* any sequence of worker invocations.
C26_OneLogPerRunAndStage ==
  \A r \in RunIds : /\ Cardinality(LogsOf(curator_logs, r)) <= 1
                    /\ Cardinality(LogsOf(editor_logs, r)) <= 1


\* C27: whenever a run's current_stage is editor, dispatcher or completed, a
\* curator log holding the parsed articles exists for it, and whenever it is
\* dispatcher or completed, an editor log with non-null editorial_content
\* exists for it.
C27_StageOutputsExist ==
  \A r \in RunIds :
    /\ StageOf(r) \in {"editor", "dispatcher", "completed"}
         => \E i \in LogsOf(curator_logs, r) : curator_logs[i].parsed
    /\ StageOf(r) \in {"dispatcher", "completed"}
         => \E i \in LogsOf(editor_logs, r) : editor_logs[i].editorial_content # JsonNull

\* The editor has moved a run to the dispatcher stage: its curator log holds
\* the parsed articles and its editor log the draft.
C27_Witness ==
  \E r \in RunIds :
    /\ StageOf(r) = "dispatcher"
    /\ \E i \in LogsOf(curator_logs, r) :
         curator_logs[i].parsed /\ curator_logs[i].raw_articles # <<>>
    /\ \E i \in LogsOf(editor_logs, r) : editor_logs[i].editorial_content # JsonNull


\* C28: a worker sets a run to failed only after it has passed its own
\* admission check for that run; an error raised before the stage check never
\* changes the run's current_stage.
Admitted(w, r) == wk[w].pc # "idle" /\ wk[w].run_id = r
C28_FailOnlyAfterAdmission ==
  [][\A r \in RunIds :
       run_tracker'[r].current_stage # run_tracker[r].current_stage
         => \E w \in Workers : Admitted(w, r)]_vars


\* C29: once a run is failed, a further failure report for the same run does
\* not change it: its failed_stage and error_message keep the values recorded
\* by the first failure.
C29_RefailingChangesNothing ==
  [][\A r \in RunIds :
       run_tracker[r].current_stage = "failed" /\ run_tracker'[r].current_stage = "failed"
         => /\ run_tracker'[r].failed_stage = run_tracker[r].failed_stage
            /\ run_tracker'[r].error_message = run_tracker[r].error_message]_vars

\* C30: whenever a run's current_stage is not failed, its failed_stage and
\* error_message are unset.
C30_FailureFieldsOnlyWhenFailed ==
  \A r \in RunIds :
    run_tracker[r].current_stage # "failed"
      => run_tracker[r].failed_stage = Null /\ run_tracker[r].error_message = Null


\* C31: the editor advances a run to dispatcher only when the parsed draft
\* contains intro, articles and outro and every article has headline,
\* story_content and source; otherwise the run ends in failed with
\* failed_stage = editor, and the editor log keeps the raw response with
\* editorial_content still null.
DraftComplete(editor_draft) ==
  /\ editor_draft.kind = "object"
  /\ {"intro", "articles", "outro"} \subseteq editor_draft.keys
  /\ \A k \in 1..Len(editor_draft.articles) :
       /\ is_dict(editor_draft.articles[k])
       /\ {"headline", "story_content", "source"} \subseteq editor_draft.articles[k]
C31_EditorValidatesDraft ==
  [][\A w \in Workers :
       news_editor_finish(w) =>
         LET log_id == wk[w].log_id
             run_id == wk[w].run_id
             raw == editor_logs[log_id].raw_llm_response
         IN IF DraftComplete(parse_json_from_response(raw))
              THEN run_tracker'[run_id].current_stage = "dispatcher"
              ELSE /\ run_tracker'[run_id].current_stage = "failed"
                   /\ run_tracker'[run_id].failed_stage = "editor"
                   /\ editor_logs'[log_id].raw_llm_response = raw
                   /\ editor_logs'[log_id].editorial_content = editor_logs[log_id].editorial_content]_vars


\* C32: when the generation call fails in the curator or the editor, the
\* worker does not call it again: the run ends in failed with failed_stage
\* equal to that worker's stage, and no stage output record is created for
\* that stage.
GenerationFailed(w) == wk[w].pc = "call" /\ ai.pc = "done" /\ ai.result = "error"
C32_GenerationFailureFailsRun ==
  [][\A w \in Workers :
       GenerationFailed(w) =>
         /\ wk'[w].pc = "idle"
         /\ run_tracker'[wk[w].run_id].current_stage = "failed"
         /\ run_tracker'[wk[w].run_id].failed_stage = wk[w].kind
         /\ curator_logs' = curator_logs
         /\ editor_logs' = editor_logs]_vars
\* The editor's generation call has failed after one request and the editor
\* has returned: the run is failed by the editor and has no editor log.
C32_Witness ==
  /\ ai.pc = "done" /\ ai.result = "error" /\ ai.provider = "openai" /\ ai.requests = 1
  /\ wk[1].pc = "idle"
  /\ run_tracker[1].current_stage = "failed"
  /\ run_tracker[1].failed_stage = "editor"
  /\ LogsOf(editor_logs, 1) = {}


\* C33: a worker invocation that passed its admission check and returns
\* leaves the run advanced to the next stage or failed; it never returns, on
\* an error after admission (missing upstream log, unusable draft, formatting
\* error), with the run still in the worker's own stage.
C33_AdmittedReturnSettlesRun ==
  [][\A w \in Workers, run_id \in RunIds :
       /\ (/\ news_editor_check(w, run_id, FALSE)
           /\ ~editor_stage_mismatch(run_tracker[run_id].current_stage)
           /\ wk'[w].pc = "idle")
            => run_tracker'[run_id].current_stage \in {"dispatcher", "failed"}
       /\ (/\ email_dispatcher_check(w, run_id, "none")
           /\ ~dispatcher_stage_mismatch(run_tracker[run_id].current_stage)
           /\ wk'[w].pc = "idle")
            => run_tracker'[run_id].current_stage \in {"completed", "failed"}]_vars


\* C34: for each run at most one email is sent, under any interleaving of
\* dispatcher invocations for that run.
C34_AtMostOneEmailPerRun == \A r \in 1..MaxRuns : emails[r] <= 1


\* C35: every run in a non-terminal stage has a pipeline execution that was
\* started for it: when starting the pipeline fails after the run was
\* inserted, the run is not left in stage curator.
C35_NoRunWithoutExecution ==
  [][/\ \A t \in Triggers :
          trigger_brew_exec(t) =>
            \/ trig[t].run_id \in executions'
            \/ run_tracker'[trig[t].run_id].current_stage \in TerminalStages
     /\ brew_scheduler_exec =>
          \/ sweep.run_id \in executions'
          \/ run_tracker'[sweep.run_id].current_stage \in TerminalStages]_vars


\* C36: every draft the editor accepts can be dispatched: the dispatcher does
\* not fail a run because a field it needs (subject, intro, articles, outro)
\* is missing from the stored draft.
C36_AcceptedDraftDispatchable ==
  [][\A w \in Workers :
       (/\ wk[w].kind = "dispatcher" /\ wk[w].pc = "send" /\ wk'[w].pc = "idle"
        /\ run_tracker[wk[w].run_id].current_stage # "failed"
        /\ run_tracker'[wk[w].run_id].current_stage = "failed")
         => {"subject", "intro", "articles", "outro"} \subseteq wk[w].draft.keys]_vars


\* C37: across the scheduler sweeps of one local day at most one run is
\* created per brew, whatever the outcome of the first run.
CreatedOnLocalDate(r) == LocalDate(run_tracker[r].created_at + BrewTz(run_tracker[r].brew_id))
C37_OneScheduledRunPerDay ==
  \A r1, r2 \in RunIds :
    /\ run_tracker[r1].brew_id = run_tracker[r2].brew_id
    /\ CreatedOnLocalDate(r1) = CreatedOnLocalDate(r2)
    => r1 = r2


\* C38: in the run-based feedback endpoint a rating of 3 changes no feedback
\* record (an existing like or dislike for the key is kept), a rating of 4 or
\* 5 is handled as like and a rating of 1 or 2 as dislike.
C38_RatingConversion ==
  [][\A f \in FeedbackSlots, user_id \in FeedbackUsers, run_id \in 1..MaxRuns,
        article_position \in {0, 1}, rating \in 1..MaxRating :
       feedback_submit_check(f, user_id, run_id, article_position, rating) =>
         /\ rating = 3 => user_feedback' = user_feedback /\ fb'[f].pc = "idle"
         /\ fb'[f].pc = "write" =>
              fb'[f].feedback_type = IF rating >= 4 THEN "like" ELSE "dislike"]_vars
\* A rating of 3 has just been answered while the key holds a reaction: the
\* record is still there and no write is pending.
C38_Witness ==
  /\ response.result = "200_neutral"
  /\ \E i \in LiveIds(user_feedback) :
       /\ user_feedback[i].run_id = 1
       /\ user_feedback[i].article_position = 0
       /\ user_feedback[i].feedback_type = "like"
  /\ \A f \in FeedbackSlots : fb[f].pc = "idle"

====
